---- MODULE Spec2Model ----
(***************************************************************************)
(* Model of lib/my_env.py: the path validator/sanitizer (get_valid_path),  *)
(* the structure dumper (dump_structure), the environment bootstrap        *)
(* (get_modulename, get_inifile, init_loghandler, init_env) and the loop   *)
(* progress reporter (LoopInfo).                                           *)
(*                                                                         *)
(* A name is a sequence of characters, a path a sequence of names relative *)
(* to the working directory.  The file system maps each existing path to   *)
(* a node, [kind |-> "dir"] or [kind |-> "file", data |-> ...].            *)
(***************************************************************************)
EXTENDS Integers, Sequences, FiniteSets, TLC

VARIABLES
    fs,          \* the file system: existing path -> node
    call,        \* the last call made: its arguments, result, exception, log records
    seen,        \* history: the (parent, fn) pairs get_valid_path had to sanitize
    rec_cnt,     \* LoopInfo.rec_cnt
    loop_cnt,    \* LoopInfo.loop_cnt
    triggercnt,  \* LoopInfo.triggercnt
    out,         \* the lines LoopInfo printed
    steps,       \* history: the number of info_loop calls made
    environ,     \* os.environ: LOGDIR and LOGLEVEL
    dotenv,      \* the variables the .env file sets (none when there is no file)
    inifiles,    \* the project names with a properties/<name>.ini file
    handlers,    \* the handlers of the root logger, in the order they were added
    rootlevel,   \* the level of the root logger
    quiet,       \* the third-party loggers set to WARNING
    written      \* the records written to the log files, in order

vars == <<fs, call, seen, rec_cnt, loop_cnt, triggercnt, out, steps,
          environ, dotenv, inifiles, handlers, rootlevel, quiet, written>>

pathvars == <<fs, call, seen>>
loopvars == <<rec_cnt, loop_cnt, triggercnt, out, steps>>
envvars  == <<environ, dotenv, inifiles, handlers, rootlevel, quiet, written>>

(***************************************************************************)
(* Bounds                                                                  *)
(***************************************************************************)
MaxLen == 2        \* longest candidate name, in characters
MaxDepth == 2      \* deepest path given to dump_structure, in names
MaxTrigger == 3    \* largest trigger count a LoopInfo is constructed with
MaxSteps == 7      \* most info_loop calls made on one LoopInfo
MaxEnds == 2       \* most end_loop calls made on one LoopInfo
MaxHandlers == 2   \* most handlers added to the root logger

(***************************************************************************)
(* Names and their validation (pathvalidate, platform='auto')              *)
(***************************************************************************)
\* "a" is a character every platform accepts; "?" is one the platform
\* rejects in a file name and in a file path.
Chars == {"a", "?"}
InvalidChars == {"?"}

Names == UNION {[1..k -> Chars] : k \in 0..MaxLen}

\* validate_filename(fn) raises ValidationError for the empty name and for a
\* name holding an invalid character.
ValidName(fn) == fn # <<>> /\ \A i \in 1..Len(fn) : fn[i] \notin InvalidChars

IsValidChar(c) == c \notin InvalidChars

\* sanitize_filename(fn): the invalid characters are removed.
sanitize_filename(fn) == SelectSeq(fn, IsValidChar)

\* f"{fn}_changed.txt"
MarkerName(fn) == fn \o <<"_changed.txt">>

\* os.path.join(parent, fn), for a name fn without a separator
Join(parent, fn) == Append(parent, fn)

(***************************************************************************)
(* The file system                                                         *)
(***************************************************************************)
Dir == [kind |-> "dir"]
File(data) == [kind |-> "file", data |-> data]

ParentOf(p) == SubSeq(p, 1, Len(p) - 1)

\* os.path.isfile, os.path.isdir
IsFile(f, p) == p \in DOMAIN f /\ f[p].kind = "file"
IsDir(f, p) == p \in DOMAIN f /\ f[p].kind = "dir"

Put(f, p, node) == [q \in DOMAIN f \cup {p} |-> IF q = p THEN node ELSE f[q]]

\* The exception open(p, 'w') raises, "none" when it opens the file.  A name
\* sanitized to nothing makes the path end in a separator: a directory.
OpenError(f, p) ==
    IF p = <<>> \/ p[Len(p)] = <<>> \/ IsDir(f, p) THEN "IsADirectoryError"
    ELSE IF IsFile(f, ParentOf(p)) THEN "NotADirectoryError"
    ELSE IF ~IsDir(f, ParentOf(p)) THEN "FileNotFoundError"
    ELSE "none"

\* A bug: os.makedirs is called, which raises nothing for a missing parent.
MakeDirsError(f, path) ==
    IF path \in DOMAIN f THEN "FileExistsError"
    ELSE IF \E k \in 1..Len(path) : IsFile(f, SubSeq(path, 1, k)) THEN "NotADirectoryError"
    ELSE "none"

\* The exception os.mkdir(p) raises, "none" when it creates the directory.
MkdirError(f, p) ==
    IF p \in DOMAIN f THEN "FileExistsError"
    ELSE IF IsFile(f, ParentOf(p)) THEN "NotADirectoryError"
    ELSE IF ~IsDir(f, ParentOf(p)) THEN "FileNotFoundError"
    ELSE "none"

Info(msg) == [level |-> "INFO", msg |-> msg]
Critical(msg) == [level |-> "CRITICAL", msg |-> msg]

(***************************************************************************)
(* get_valid_path                                                          *)
(***************************************************************************)
\* The parent directories get_valid_path is called with: existing directories.
Parents == { << <<"p">> >>, << <<"q">> >> }

\* msg = f"Name '{attrib_fn}' changed to '{fn}'"
RenameNote(attrib_fn, fn) == <<"Name", attrib_fn, "changed to", fn>>

\* A bug: the name is sanitized and recorded whether or not it validates.
NameRejectedAlways(fn) == TRUE

\* try: validate_filename(fn) / except ValidationError
NameRejected(fn) == ~ValidName(fn)

\* if not os.path.isfile(os.path.join(parent, f"{fn}_changed.txt"))
MarkerMissing(f, marker) == ~IsFile(f, marker)

get_valid_path(parent, fn) ==
    IF ~NameRejected(fn)
    THEN /\ fs' = fs
         /\ call' = [op |-> "get_valid_path", parent |-> parent, fn |-> fn,
                     ret |-> Join(parent, fn), exc |-> "none", logged |-> <<>>]
    ELSE LET new == sanitize_filename(fn)
             marker == Join(parent, MarkerName(new))
             need == Info(<<"Need to sanitize stream", fn, "to", new>>)
         IN IF MarkerMissing(fs, marker)
            THEN IF OpenError(fs, marker) = "none"
                 THEN /\ fs' = Put(fs, marker, File(RenameNote(fn, new)))
                      /\ call' = [op |-> "get_valid_path", parent |-> parent, fn |-> fn,
                                  ret |-> Join(parent, new), exc |-> "none",
                                  logged |-> <<need, Info(RenameNote(fn, new))>>]
                 ELSE /\ fs' = fs
                      /\ call' = [op |-> "get_valid_path", parent |-> parent, fn |-> fn,
                                  ret |-> <<>>, exc |-> OpenError(fs, marker),
                                  logged |-> <<need>>]
            ELSE /\ fs' = fs
                 /\ call' = [op |-> "get_valid_path", parent |-> parent, fn |-> fn,
                             ret |-> Join(parent, new), exc |-> "none",
                             logged |-> <<need>>]

NoCall == [op |-> "none"]

InitFs == [p \in {<<>>} \cup Parents |-> Dir]

InitPathVars == fs = InitFs /\ call = NoCall /\ seen = {}

InitLoopVars ==
    /\ rec_cnt = 0 /\ loop_cnt = 0 /\ triggercnt = 1 /\ out = <<>> /\ steps = 0


InitEnvVars ==
    /\ environ = <<>> /\ dotenv = <<>> /\ inifiles = {} /\ handlers = <<>>
    /\ rootlevel = 30 /\ quiet = {} /\ written = <<>>

GetValidPath ==
    \E parent \in Parents, fn \in Names :
        /\ get_valid_path(parent, fn)
        /\ UNCHANGED <<seen, loopvars, envvars>>

\* The same call, with the names that had to be sanitized remembered.
GetValidPathSeen ==
    \E parent \in Parents, fn \in Names :
        /\ get_valid_path(parent, fn)
        /\ seen' = IF ValidName(fn) THEN seen ELSE seen \cup {<<parent, fn>>}
        /\ UNCHANGED <<loopvars, envvars>>

PathInit == InitPathVars /\ InitLoopVars /\ InitEnvVars
PathSpec == PathInit /\ [][GetValidPath]_vars
PathSeenSpec == PathInit /\ [][GetValidPathSeen]_vars

\* The marker files of a directory
Markers(f, parent) == {p \in DOMAIN f : p # <<>> /\ ParentOf(p) = parent /\ f[p].kind = "file"}

\* C1: a call of get_valid_path with a name that passes validation returns
\* the parent joined with the unchanged name, raises nothing and leaves the
\* file system as it was: no marker file is created or rewritten.
C1_ValidNameNoMarker ==
    [][(call'.op = "get_valid_path" /\ ValidName(call'.fn))
        => /\ call'.ret = Append(call'.parent, call'.fn)
           /\ call'.exc = "none"
           /\ fs' = fs]_vars

\* C1 witness: a valid name was joined to a parent that already holds a marker.
C1_Witness ==
    /\ call.op = "get_valid_path"
    /\ ValidName(call.fn)
    /\ call.ret = Append(call.parent, call.fn)
    /\ Markers(fs, call.parent) # {}

\* C2 (as claimed): the first call with a name that fails validation creates
\* exactly one marker file, '<sanitized>_changed.txt', holding the rename
\* line of that name; every later call with the same name and parent
\* returns the same path and leaves the file system as it was.
C2_MarkerOncePerName ==
    [][(call'.op = "get_valid_path" /\ ~ValidName(call'.fn))
        => LET new == sanitize_filename(call'.fn)
               marker == Append(call'.parent, MarkerName(new))
           IN /\ call'.exc = "none"
              /\ call'.ret = Append(call'.parent, new)
              /\ IF <<call'.parent, call'.fn>> \notin seen
                 THEN /\ DOMAIN fs' = DOMAIN fs \cup {marker}
                      /\ marker \notin DOMAIN fs
                      /\ \A p \in DOMAIN fs : fs'[p] = fs[p]
                      /\ fs'[marker] = File(RenameNote(call'.fn, new))
                 ELSE fs' = fs]_vars

\* C3 (as claimed): every original name that failed validation in some call
\* on a parent directory has a rename note naming it in that directory.
C3_NotePerOriginal ==
    \A s \in seen :
        \E p \in Markers(fs, s[1]) : fs[p].data = RenameNote(s[2], sanitize_filename(s[2]))

(***************************************************************************)
(* dump_structure                                                          *)
(***************************************************************************)
\* The paths dump_structure is given: up to MaxDepth names of one character
\* each; the empty sequence is the empty string.
PathNames == [1..1 -> Chars]
Paths == UNION {[1..k -> PathNames] : k \in 0..MaxDepth}

\* validate_filepath(path) raises ValidationError for the empty path and for
\* a path holding an invalid character.
ValidPath(path) == path # <<>> /\ \A i \in 1..Len(path) : ValidName(path[i])

\* The file names dump_structure is given: a valid one, a longer valid one,
\* one that is sanitized to a valid one and one that is sanitized to nothing.
DumpNames == {<<"a">>, <<"a", "a">>, <<"a", "?">>, <<"?">>}

\* The structure dumped: a mapping, as the sequence of its keys in insertion order.
Structs == {<<2, 1>>}

Sorted(keys) == SortSeq(keys, LAMBDA x, y : x < y)

\* json.dumps(struct, ensure_ascii=False, indent=2, sort_keys=sort_keys)
json_dumps(struct, sort_keys) == IF sort_keys THEN Sorted(struct) ELSE struct

\* A bug: the ValidationError of the path is not acted on.
PathRejectedNever(path) == FALSE

\* try: validate_filepath(path) / except ValidationError
PathRejected(path) == ~ValidPath(path)

\* os.mkdir(path), when it raises nothing
MakeDir(f, path) == Put(f, path, Dir)

dump_structure(struct, path, filename, sort_keys) ==
    LET rec(exc, logged) ==
            [op |-> "dump_structure", path |-> path, filename |-> filename,
             sort_keys |-> sort_keys, exc |-> exc, logged |-> logged]
    IN IF PathRejected(path)
       THEN /\ fs' = fs
            /\ call' = rec("none", <<Critical(<<"Invalid path", path>>)>>)
       ELSE IF ~IsDir(fs, path) /\ MkdirError(fs, path) # "none"
       THEN /\ fs' = fs
            /\ call' = rec(MkdirError(fs, path), <<>>)
       ELSE LET made == IF IsDir(fs, path) THEN fs ELSE MakeDir(fs, path)
                struct_str == json_dumps(struct, sort_keys)
                name == IF ValidName(filename) THEN filename
                        ELSE sanitize_filename(filename)
                target == Join(path, name)
            IN IF OpenError(made, target) # "none"
               THEN /\ fs' = made
                    /\ call' = rec(OpenError(made, target), <<>>)
               ELSE /\ fs' = Put(made, target, File(struct_str))
                    /\ call' = rec("none", <<>>)

DumpStructure ==
    \E struct \in Structs, path \in Paths, filename \in DumpNames, sort_keys \in BOOLEAN :
        /\ dump_structure(struct, path, filename, sort_keys)
        /\ UNCHANGED <<seen, loopvars, envvars>>

DumpSpec == PathInit /\ [][DumpStructure]_vars

Criticals(logged) == {i \in 1..Len(logged) : logged[i].level = "CRITICAL"}

\* C6: a call of dump_structure with a path that fails validation logs one
\* critical message, raises nothing and leaves the file system as it was.
C6_InvalidPathNoWrite ==
    [][(call'.op = "dump_structure" /\ ~ValidPath(call'.path))
        => /\ call'.exc = "none"
           /\ Cardinality(Criticals(call'.logged)) = 1
           /\ fs' = fs]_vars

\* C6 witness: an invalid path was refused while a dumped file exists.
C6_Witness ==
    /\ call.op = "dump_structure"
    /\ ~ValidPath(call.path)
    /\ Len(call.path) > 1
    /\ Len(call.logged) = 1
    /\ \E p \in DOMAIN fs : fs[p].kind = "file"

StartLine == [kind |-> "start"]
ProgressLine(cnt) == [kind |-> "progress", cnt |-> cnt]
EndLine(cnt) == [kind |-> "end", cnt |-> cnt]

\* LoopInfo(attribname, triggercnt)
LoopInit ==
    /\ triggercnt \in 0..MaxTrigger
    /\ rec_cnt = 0
    /\ loop_cnt = 0
    /\ out = <<StartLine>>
    /\ steps = 0
    /\ call = [op |-> "__init__"]
    /\ fs = InitFs /\ seen = {}
    /\ InitEnvVars

\* A bug: the report comes one iteration late.
TriggerPassed(cnt, trigger) == cnt > trigger

\* if self.loop_cnt >= self.triggercnt
TriggerReached(cnt, trigger) == cnt >= trigger

\* A bug: the count since the last report is returned.
InfoLoopReturnsLoopCnt(rec, cnt) == cnt

\* return self.rec_cnt
InfoLoopReturn(rec, cnt) == rec

IsEndLine(line) == line.kind = "end"
IsProgressLine(line) == line.kind = "progress"

info_loop ==
    /\ steps < MaxSteps
    /\ rec_cnt' = rec_cnt + 1
    /\ IF TriggerReached(loop_cnt + 1, triggercnt)
       THEN /\ out' = Append(out, ProgressLine(rec_cnt + 1))
            /\ loop_cnt' = 0
       ELSE /\ out' = out
            /\ loop_cnt' = loop_cnt + 1
    /\ call' = [op |-> "info_loop", ret |-> InfoLoopReturn(rec_cnt', loop_cnt')]
    /\ steps' = steps + 1
    /\ UNCHANGED <<triggercnt, fs, seen, envvars>>

end_loop ==
    /\ Len(SelectSeq(out, IsEndLine)) < MaxEnds
    /\ out' = Append(out, EndLine(rec_cnt))
    /\ call' = [op |-> "end_loop", ret |-> rec_cnt]
    /\ UNCHANGED <<rec_cnt, loop_cnt, triggercnt, steps, fs, seen, envvars>>

LoopNext == info_loop \/ end_loop
LoopSpec == LoopInit /\ [][LoopNext]_vars

ProgressLines == SelectSeq(out, IsProgressLine)

\* C4: with a positive trigger count N, after k info_loop calls floor(k/N)
\* progress lines are printed, the i-th of them showing the lifetime count
\* i*N, and loop_cnt is k mod N.
C4_ProgressEveryN ==
    triggercnt > 0 =>
        /\ Len(ProgressLines) = steps \div triggercnt
        /\ loop_cnt = steps % triggercnt
        /\ \A i \in 1..Len(ProgressLines) : ProgressLines[i].cnt = i * triggercnt

\* C4 witness: N + 1 calls were made with N = 2, and one progress line is out.
C4_Witness ==
    /\ triggercnt = 2
    /\ steps = 3
    /\ Len(ProgressLines) = 1
    /\ loop_cnt = 1

\* C5: info_loop returns the number of info_loop calls made so far; end_loop
\* returns that number too and changes neither rec_cnt nor loop_cnt.
C5_ReturnsCallCount ==
    [][/\ call'.op = "info_loop" => call'.ret = steps'
       /\ call'.op = "end_loop" =>
            /\ call'.ret = steps
            /\ steps' = steps
            /\ rec_cnt' = rec_cnt
            /\ loop_cnt' = loop_cnt]_vars

\* C5 witness: end_loop returned 3 after three info_loop calls, two of them
\* since the last report.
C5_Witness ==
    /\ call.op = "end_loop"
    /\ call.ret = 3
    /\ steps = 3
    /\ loop_cnt = 1
    /\ triggercnt = 2

(***************************************************************************)
(* get_modulename, get_inifile, init_loghandler, init_env                  *)
(***************************************************************************)
Unset == "<unset>"       \* os.getenv(...) is None
EnvKeys == {"LOGDIR", "LOGLEVEL"}

\* LOGDIR: "logs" is an existing directory, "nodir" is not.
LogDirs == {"logs", "nodir"}
\* LOGLEVEL: two level names in lower case and a word that names no level.
LogLevels == {"info", "warning", "bogus"}

Environments ==
    {e \in [EnvKeys -> LogDirs \cup LogLevels \cup {Unset}] :
        /\ e["LOGDIR"] \in LogDirs \cup {Unset}
        /\ e["LOGLEVEL"] \in LogLevels \cup {Unset}}

Projects == {"proj", "other"}

\* The calling scripts, as the pieces of their file names.
Scripts == {<<"dir", "/", "m1", ".py">>, <<"m2", ".py">>}

\* load_dotenv(dotenv_path=envfile): override is False, a variable that is
\* already set keeps its value; a missing file sets nothing.
LoadDotenv(env, file) ==
    [k \in EnvKeys |-> IF env[k] # Unset THEN env[k] ELSE file[k]]

\* A configuration handle is the set of its (section, content) pairs.
EmptyConfig == {}
\* ini_config.read_file(f): the sections of the project's ini file
ParsedConfig(projectname) == {<<"section", projectname>>}

\* A bug: FileNotFoundError is not caught.
IniErrorUncaught(files, projectname) ==
    IF projectname \in files THEN "none" ELSE "FileNotFoundError"

\* try: open(configfile) ... except FileNotFoundError: ini_config = {}
IniError(files, projectname) == "none"

IniConfig(files, projectname) ==
    IF projectname \in files THEN ParsedConfig(projectname) ELSE EmptyConfig

\* os.path.split(scriptname)[1], then os.path.splitext(filename)[0]
get_modulename(scriptname) ==
    LET seps == {i \in 1..Len(scriptname) : scriptname[i] = "/"}
        from == IF seps = {} THEN 1 ELSE 1 + CHOOSE i \in seps : \A j \in seps : j <= i
        filename == SubSeq(scriptname, from, Len(scriptname))
    IN IF Len(filename) > 1 /\ filename[Len(filename)] = ".py"
       THEN SubSeq(filename, 1, Len(filename) - 1)
       ELSE filename

\* str.upper()
Upper(s) ==
    CASE s = "info" -> "INFO"
      [] s = "warning" -> "WARNING"
      [] s = "bogus" -> "BOGUS"
      [] OTHER -> s

\* logging.getLevelName(name): the number of a level name, a string "Level
\* <name>" for a word that names no level.
getLevelName(name) ==
    CASE name = "DEBUG" -> 10
      [] name = "INFO" -> 20
      [] name = "WARNING" -> 30
      [] OTHER -> <<"Level", name>>

LevelKnown(name) == name \in {"DEBUG", "INFO", "WARNING"}

\* "{module}_{host}.log" in LOGDIR, host = platform.node()
LogFile(logdir, modulename) == <<logdir, modulename, "host", ".log">>

RotatingFileHandler(logfile) == [kind |-> "RotatingFileHandler", file |-> logfile]

QuietLoggers == {"asyncio", "websockets.client", "websockets.protocol"}

\* init_loghandler(modulename), run with the environment env, the root
\* logger's handlers hs and level lvl, and the quietened loggers q: the
\* exception it raises and what it leaves behind.
Loghandler(env, modulename, hs, lvl, q) ==
    LET same(exc) == [exc |-> exc, handlers |-> hs, rootlevel |-> lvl, quiet |-> q]
    IN \* loglevel = os.getenv("LOGLEVEL").upper()
       IF env["LOGLEVEL"] = Unset THEN same("AttributeError")
       \* logfile = os.path.join(logdir, logfn)
       ELSE IF env["LOGDIR"] = Unset THEN same("TypeError")
       \* logger.setLevel(level)
       ELSE IF ~LevelKnown(Upper(env["LOGLEVEL"])) THEN same("ValueError")
       \* rfh = logging.handlers.RotatingFileHandler(logfile, ...)
       ELSE IF env["LOGDIR"] # "logs"
       THEN [exc |-> "FileNotFoundError", handlers |-> hs,
             rootlevel |-> getLevelName(Upper(env["LOGLEVEL"])), quiet |-> q]
       \* logger.addHandler(rfh); the console handler is not added
       ELSE [exc |-> "none",
             handlers |-> Append(hs, RotatingFileHandler(LogFile(env["LOGDIR"], modulename))),
             rootlevel |-> getLevelName(Upper(env["LOGLEVEL"])),
             quiet |-> q \cup QuietLoggers]

\* my_log.info(msg): every handler of the root logger writes the record when
\* the root logger's level lets INFO through.
Emit(hs, lvl, msg) ==
    IF getLevelName("INFO") >= lvl
    THEN [i \in 1..Len(hs) |-> [file |-> hs[i].file, msg |-> msg]]
    ELSE <<>>

EnvInit ==
    /\ environ \in Environments
    /\ dotenv \in Environments
    /\ inifiles \in SUBSET Projects
    /\ handlers = <<>>
    /\ rootlevel = getLevelName("WARNING")
    /\ quiet = {}
    /\ written = <<>>
    /\ call = NoCall
    /\ fs = InitFs /\ seen = {}
    /\ InitLoopVars

GetInifile ==
    \E projectname \in Projects :
        /\ environ' = LoadDotenv(environ, dotenv)
        /\ call' = [op |-> "get_inifile", projectname |-> projectname,
                    ret |-> IniConfig(inifiles, projectname),
                    exc |-> IniError(inifiles, projectname)]
        /\ UNCHANGED <<dotenv, inifiles, handlers, rootlevel, quiet, written,
                       fs, seen, loopvars>>

InitLoghandler ==
    \E modulename \in {get_modulename(s) : s \in Scripts} :
        LET r == Loghandler(environ, modulename, handlers, rootlevel, quiet)
        IN /\ Len(handlers) < MaxHandlers
           /\ handlers' = r.handlers
           /\ rootlevel' = r.rootlevel
           /\ quiet' = r.quiet
           /\ call' = [op |-> "init_loghandler", modulename |-> modulename, exc |-> r.exc]
           /\ UNCHANGED <<environ, dotenv, inifiles, written, fs, seen, loopvars>>

NoReturn == {<<"no", "return">>}

\* A bug: logging is initialised before the .env file is loaded.
EnvBeforeDotenv(env, file) == env

\* The environment init_loghandler reads: get_inifile has run before it.
EnvAtLogInit(env, file) == LoadDotenv(env, file)

\* init_env(projectname, filename)
init_env(projectname, filename) ==
    LET modulename == get_modulename(filename)
        config == IniConfig(inifiles, projectname)
        r == Loghandler(EnvAtLogInit(environ, dotenv), modulename, handlers, rootlevel, quiet)
        start == Info("Start Application")
        rec(ret, exc, logged) ==
            [op |-> "init_env", projectname |-> projectname, filename |-> filename,
             ret |-> ret, exc |-> exc, logged |-> logged]
    IN /\ environ' = LoadDotenv(environ, dotenv)
       /\ IF IniError(inifiles, projectname) # "none"
          THEN /\ UNCHANGED <<handlers, rootlevel, quiet, written>>
               /\ call' = rec(NoReturn, IniError(inifiles, projectname), <<>>)
          ELSE /\ handlers' = r.handlers
               /\ rootlevel' = r.rootlevel
               /\ quiet' = r.quiet
               /\ IF r.exc # "none"
                  THEN /\ written' = written
                       /\ call' = rec(NoReturn, r.exc, <<>>)
                  ELSE /\ written' = written \o Emit(r.handlers, r.rootlevel, start.msg)
                       /\ call' = rec(config, "none", <<start>>)

InitEnv ==
    \E projectname \in Projects, filename \in Scripts :
        /\ Len(handlers) < MaxHandlers
        /\ init_env(projectname, filename)
        /\ UNCHANGED <<dotenv, inifiles, fs, seen, loopvars>>

EnvNext == GetInifile \/ InitLoghandler \/ InitEnv
EnvSpec == EnvInit /\ [][EnvNext]_vars

\* C8: get_inifile for a project without an ini file returns the empty
\* configuration and raises nothing, and sets from the .env file exactly
\* the variables the environment has not set; init_env for such a project
\* returns the empty configuration whenever logging can be initialised.
C8_MissingIniEmptyConfig ==
    [][/\ (call'.op = "get_inifile" /\ call'.projectname \notin inifiles)
            => /\ call'.ret = {}
               /\ call'.exc = "none"
               /\ \A k \in EnvKeys :
                    environ'[k] = IF environ[k] # Unset THEN environ[k] ELSE dotenv[k]
       /\ (call'.op = "init_env" /\ call'.projectname \notin inifiles
             /\ environ'["LOGDIR"] = "logs"
             /\ environ'["LOGLEVEL"] \in {"info", "warning"})
            => /\ call'.exc = "none"
               /\ call'.ret = {}]_vars

\* C8 witness: get_inifile returned the empty configuration for a project
\* without an ini file; LOGLEVEL kept the value the environment had set and
\* LOGDIR came from the .env file.
C8_Witness ==
    /\ call.op = "get_inifile"
    /\ call.projectname \notin inifiles
    /\ call.ret = {}
    /\ environ["LOGLEVEL"] = "info"
    /\ dotenv["LOGLEVEL"] = "warning"
    /\ environ["LOGDIR"] = "logs"
    /\ dotenv["LOGDIR"] = "logs"

\* C9 (as claimed): after a call of init_env or init_loghandler that
\* succeeded, the root logger carries exactly one rotating file handler and
\* no other handler.
C9_SingleHandler ==
    (call.op \in {"init_env", "init_loghandler"} /\ call.exc = "none")
        => /\ Len(handlers) = 1
           /\ \A i \in 1..Len(handlers) : handlers[i].kind = "RotatingFileHandler"

\* C10: init_env loads the .env file, then initialises logging from the
\* environment as it is after the load, then logs 'Start Application' once
\* and returns the configuration.  If LOGDIR or LOGLEVEL is still unset after
\* the load, it raises before the root logger's level changes or a handler
\* is added, logs nothing and returns nothing.
C10_InitEnvOrder ==
    [][call'.op = "init_env" =>
        LET loaded == [k \in EnvKeys |->
                          IF environ[k] # Unset THEN environ[k] ELSE dotenv[k]]
        IN /\ environ' = loaded
           /\ (loaded["LOGDIR"] = Unset \/ loaded["LOGLEVEL"] = Unset)
                => /\ call'.exc \in {"AttributeError", "TypeError"}
                   /\ rootlevel' = rootlevel
                   /\ handlers' = handlers
                   /\ written' = written
                   /\ call'.logged = <<>>
                   /\ call'.ret = NoReturn
           /\ (loaded["LOGDIR"] = "logs" /\ loaded["LOGLEVEL"] \in {"info", "warning"})
                => call'.exc = "none"
           /\ call'.exc = "none"
                => /\ call'.logged = <<Info("Start Application")>>
                   /\ call'.ret = IF call'.projectname \in inifiles
                                  THEN {<<"section", call'.projectname>>} ELSE {}
                   /\ Len(handlers') = Len(handlers) + 1
                   /\ Len(written') <= Len(written) + Len(handlers')
           /\ call'.exc # "none"
                => /\ call'.logged = <<>>
                   /\ call'.ret = NoReturn
                   /\ written' = written]_vars

\* C10 witness: init_env loaded LOGDIR from the .env file, found LOGLEVEL
\* still unset and raised, with the root logger untouched.
C10_Witness ==
    /\ call.op = "init_env"
    /\ call.exc = "AttributeError"
    /\ call.ret = NoReturn
    /\ environ["LOGDIR"] = "logs"
    /\ dotenv["LOGDIR"] = "logs"
    /\ environ["LOGLEVEL"] = Unset
    /\ handlers = <<>>
    /\ rootlevel = 30
    /\ written = <<>>

====
